---- MODULE Spec2Model ----
(***************************************************************************)
(* Model of the Airly air-quality pipeline.                                *)
(*                                                                         *)
(*   airly_collector.py  the collector: fetch -> parse -> fan-out to the   *)
(*                       relational, file and forwarding sinks, either     *)
(*                       once (--once) or in the continuous loop (run).    *)
(*   db_setup.py         the migration of a CSV file into the store        *)
(*                       (migrate_csv), run one or more times in sequence  *)
(*                       or twice at the same time.                        *)
(*   api.py              the REST layer over the table `measurements`.     *)
(*                                                                         *)
(* The specifications share the variables: Spec and FairSpec (the          *)
(* collector process), SpecMigrate (one run of the migration utility in a  *)
(* faulty environment), SpecRerun (the migration utility run again and     *)
(* again over the same file), SpecPipeline (one --once run of the          *)
(* collector, then the migration of the file it wrote), SpecConcurrent     *)
(* (two migration utilities at once) and SpecApi (the REST server).  The   *)
(* variables of a process that is not running stay at their initial        *)
(* values.                                                                 *)
(***************************************************************************)
EXTENDS Integers, Sequences, FiniteSets, TLC

(***************************************************************************)
(* Bounds of the model.                                                    *)
(***************************************************************************)
\* number of collection cycles the continuous loop is followed for
MaxCycles == 2
\* longest CSV file handed to the migration
MaxRows == 3
\* number of migrate_csv runs in sequence
MaxRuns == 2
\* number of environment faults (store error, lost connection, read error)
\* injected into one migration run
MaxFaults == 1
\* number of requests the REST server is followed for
MaxRequests == 2

(***************************************************************************)
(* Python values.                                                          *)
(***************************************************************************)
\* Optional[x]: None is the empty sequence, a present value v is <<v>>.
None == << >>
Some(v) == << v >>
IsNone(o) == o = << >>

\* the empty dict {}
EmptyDict == [k \in {} |-> 0]
\* dict.get(key, default)
Get(d, key, default) == IF key \in DOMAIN d THEN d[key] ELSE default
\* truthiness of a dict, a list or None (`if not x`)
Truthy(x) == DOMAIN x # {}

(***************************************************************************)
(* Config.from_env defaults (airly_collector.py).                          *)
(***************************************************************************)
INSTALLATION_ID == 3387
CITY_NAME == "Gdansk"
\* coordinates in micro-degrees
LATITUDE == 54352000
LONGITUDE == 18646600

(***************************************************************************)
(* State.                                                                  *)
(***************************************************************************)
VARIABLES
    \* ---- the world shared by the processes ----
    table,          \* committed rows of the table `measurements`, in id order
    csv_file,       \* the collector's CSV file: None (absent) or Some(lines)
    hsbi_posts,     \* payloads the forwarding endpoint has been POSTed
    \* ---- the collector process (airly_collector.py) ----
    config,         \* Config, fixed at start-up
    once,           \* TRUE when started with --once
    pc,             \* position of the collector
    cycle,          \* number of the current collection cycle (the clock)
    data,           \* local `data` of collect_once
    measurement,    \* local `measurement` of collect_once: None or Some(m)
    success,        \* local `success` of collect_once
    db_conn,        \* the connection save_to_database opened last: "none",
                    \* "open", "lost" or "closed"
    calls,          \* per cycle: how often each I/O function was invoked
    rets,           \* per cycle: what each function returned
    cycle_result,   \* outcome of collect_once: "none", "True", "False", "raised"
    exit_status,    \* -1 while the process runs, else its exit status
    before,         \* the world as it was when the cycle started
    \* ---- the migration utility (db_setup.py) ----
    m_pc,           \* position of the utility: "off", "start", "rows", "done", "exited"
    m_run,          \* number of the current migrate_csv run
    skip_duplicates,\* argument of migrate_csv
    m_idx,          \* index of the next row the reader yields
    rows_imported,  \* the three counters of migrate_csv
    rows_skipped,
    rows_duplicate,
    pending,        \* rows inserted in the open transaction, not committed
    conn,           \* connection of this run: "none", "open", "lost", "closed"
    m_before,       \* the table and the fault count when this run started
    m_result,       \* outcome of migrate_csv: "none", "True", "False", "raised"
    m_exit,         \* -1 while the utility runs, else its exit status
    row_log,        \* what became of each row of this run so far
    m_log,          \* one summary per finished run
    fault_budget,   \* faults the environment may still inject
    faults,         \* the environment faults injected so far, in order
    \* ---- a second migration utility, run at the same time ----
    peer,           \* its position, reader index, open transaction and result
    \* ---- the REST layer (api.py) ----
    api             \* the server's key, the request in flight and its response

collector_vars == << config, once, pc, cycle, data, measurement, success, db_conn,
                     calls, rets, cycle_result, exit_status, before >>
world_vars == << table, csv_file, hsbi_posts >>
mig_vars == << m_pc, m_run, skip_duplicates, m_idx, rows_imported,
              rows_skipped, rows_duplicate, pending, conn, m_before, m_result,
              m_exit, row_log, m_log, fault_budget, faults >>
vars == << table, csv_file, hsbi_posts, config, once, pc, cycle, data,
           measurement, success, db_conn, calls, rets, cycle_result, exit_status,
           before, m_pc, m_run, skip_duplicates, m_idx, rows_imported,
           rows_skipped, rows_duplicate, pending, conn, m_before, m_result,
           m_exit, row_log, m_log, fault_budget, faults, peer, api >>

(***************************************************************************)
(* Provider payloads (the JSON of the Airly API).  A dict is a function    *)
(* whose domain is the set of its keys.                                    *)
(***************************************************************************)
SourceCurrent ==
    [values  |-> << [name |-> "PM25", value |-> 12],
                    [name |-> "TEMPERATURE", value |-> 0],
                    [name |-> "PM25", value |-> 14],
                    [name |-> "NO2", value |-> 7] >>,
     indexes |-> << [name |-> "AIRLY_CAQI", value |-> 40] >>]
SourceHistory ==
    [values  |-> << [name |-> "PM10", value |-> 30] >>,
     indexes |-> << [name |-> "AIRLY_CAQI"] >>]

PayloadEmpty == EmptyDict
PayloadNoSections == [installationId |-> INSTALLATION_ID]
PayloadNoData == [current |-> [values |-> << >>, indexes |-> << >>],
                  history |-> << >>]
PayloadEmptyHistoryEntry == [current |-> EmptyDict, history |-> << EmptyDict >>]
PayloadCurrent == [current |-> SourceCurrent]
PayloadHistory == [current |-> [values |-> << >>], history |-> << SourceHistory >>]
PayloadBoth == [current |-> SourceCurrent, history |-> << SourceHistory >>]
PayloadBare == [history |-> << [fromDateTime |-> 1] >>]

Payloads == { PayloadEmpty, PayloadNoSections, PayloadNoData,
              PayloadEmptyHistoryEntry, PayloadCurrent, PayloadHistory,
              PayloadBoth, PayloadBare }
\* the payloads the collector process is fed
CollectorPayloads == { PayloadEmpty, PayloadNoData, PayloadBoth, PayloadBare }

\* payloads whose "current" section reports, for each measured quantity,
\* nothing, the value 0 or another value, and no index, the index 0 or
\* another index; "history" is present as well
ValueNames == << "PM25", "PM10", "TEMPERATURE", "HUMIDITY", "PRESSURE" >>
Reported == { << >>, << 0 >>, << 12 >> }
readings(ch) ==
    LET all == [i \in DOMAIN ValueNames |->
                  [name |-> ValueNames[i],
                   value |-> IF ch[i] = << >> THEN -1 ELSE ch[i][1]]]
        present(r) == r.value # -1
    IN  SelectSeq(all, present)
index_list(x) ==
    IF x = << >> THEN << >> ELSE << [name |-> "AIRLY_CAQI", value |-> x[1]] >>
ReportingPayloads ==
    { [current |-> [values |-> readings(ch), indexes |-> index_list(x)],
       history |-> << SourceHistory >>] :
        ch \in [DOMAIN ValueNames -> Reported], x \in Reported }
ProviderPayloads == Payloads \cup ReportingPayloads

(***************************************************************************)
(* Measurement and parse_measurement.                                      *)
(***************************************************************************)
Max(S) == CHOOSE x \in S : \A y \in S : y <= x

\* values[v["name"]] = v["value"] for v in the list, then values.get(name):
\* the last entry of that name wins
values_get(vals, name) ==
    LET idx == { i \in DOMAIN vals : vals[i].name = name }
    IN  IF idx = {} THEN None ELSE Some(vals[Max(idx)].value)

\* a selection that tries history before current
select_source_history_first(d) ==
    IF Truthy(Get(d, "history", << >>)) /\ Len(d["history"]) > 0
    THEN d["history"][1]
    ELSE IF Truthy(Get(d, "current", EmptyDict))
            /\ Truthy(Get(d["current"], "values", << >>))
    THEN d["current"]
    ELSE EmptyDict

\* the payload section parse_measurement reads: current, else history[0]
select_source(d) ==
    IF Truthy(Get(d, "current", EmptyDict))
       /\ Truthy(Get(d["current"], "values", << >>))
    THEN d["current"]
    ELSE IF Truthy(Get(d, "history", << >>)) /\ Len(d["history"]) > 0
    THEN d["history"][1]
    ELSE EmptyDict

\* parse_measurement, lines 188-207: the Measurement built from the source
build_measurement(source, now) ==
    LET vals    == Get(source, "values", << >>)
        indexes == Get(source, "indexes", << >>)
        aqi     == IF Truthy(indexes)
                   THEN IF "value" \in DOMAIN indexes[1]
                        THEN Some(indexes[1].value) ELSE None
                   ELSE None
    IN  [timestamp   |-> now,
         city        |-> CITY_NAME,
         latitude    |-> LATITUDE,
         longitude   |-> LONGITUDE,
         pm25        |-> values_get(vals, "PM25"),
         pm10        |-> values_get(vals, "PM10"),
         temperature |-> values_get(vals, "TEMPERATURE"),
         humidity    |-> values_get(vals, "HUMIDITY"),
         pressure    |-> values_get(vals, "PRESSURE"),
         aqi         |-> aqi,
         station_id  |-> Some(INSTALLATION_ID)]

\* a parse_measurement without the `if not source` exit
parse_measurement_unchecked(d, now) ==
    IF ~Truthy(d) THEN None
    ELSE Some(build_measurement(select_source(d), now))

parse_measurement(d, now) ==
    IF ~Truthy(d) THEN None
    ELSE IF ~Truthy(select_source(d)) THEN None
    ELSE Some(build_measurement(select_source(d), now))

\* the clock, datetime.now(timezone.utc): a timestamp is a number of whole
\* seconds `s` and of microseconds `us`; cycle n runs at hour n, minute n,
\* so that hour and minute both change from cycle to cycle
Now(n) == [s |-> n * 3660, us |-> 250000]
hour_utc(m) == (m.timestamp.s \div 3600) % 24
minute_utc(m) == (m.timestamp.s \div 60) % 60

\* the row save_to_database inserts; the DATETIME column keeps the whole
\* seconds of the timestamp
db_row(m) ==
    [datetime_utc |-> m.timestamp.s, city |-> m.city,
     lat |-> Some(m.latitude), lon |-> Some(m.longitude),
     hour_utc |-> Some(hour_utc(m)), minute_utc |-> Some(minute_utc(m)),
     pm25 |-> m.pm25, pm10 |-> m.pm10, temperature |-> m.temperature,
     humidity |-> m.humidity, pressure |-> m.pressure, aqi |-> m.aqi,
     station_id |-> m.station_id]

(***************************************************************************)
(* CSV cells: a cell of the file is text.  Num(n) is the text of the       *)
(* number n, Dt(t) the text of the timestamp t in "%Y-%m-%d %H:%M:%S",     *)
(* Txt(s) any other text, Empty the empty field and Garbage a text that    *)
(* is neither a number nor a timestamp.                                    *)
(***************************************************************************)
Num(n) == [k |-> "num", n |-> n, s |-> ""]
Dt(t)  == [k |-> "dt", n |-> t, s |-> ""]
Txt(s) == [k |-> "txt", n |-> 0, s |-> s]
Empty  == [k |-> "txt", n |-> 0, s |-> ""]
Garbage == [k |-> "txt", n |-> 0, s |-> "n/a"]

CSV_HEADERS == << "datetime_utc", "city", "lat", "lon", "hour_utc", "minute_utc",
                  "PM25", "PM10", "TEMPERATURE", "HUMIDITY", "PRESSURE", "AQI" >>
header_line == [i \in 1..Len(CSV_HEADERS) |-> Txt(CSV_HEADERS[i])]

\* timestamp.strftime("%Y-%m-%d %H:%M:%S"): the microseconds are not written
strftime(ts) == Dt(ts.s)

\* `x or ""`: a zero is written as an empty field too
opt_cell_falsy(o) == IF IsNone(o) \/ o = Some(0) THEN Empty ELSE Num(o[1])

\* `x if x is not None else ""`
opt_cell(o) == IF IsNone(o) THEN Empty ELSE Num(o[1])

to_csv_row(m) ==
    << strftime(m.timestamp), Txt(m.city), Num(m.latitude), Num(m.longitude),
       Num(hour_utc(m)), Num(minute_utc(m)),
       opt_cell(m.pm25), opt_cell(m.pm10), opt_cell(m.temperature),
       opt_cell(m.humidity), opt_cell(m.pressure), opt_cell(m.aqi) >>

(***************************************************************************)
(* The forwarding payload of send_to_hsbi.  `x or 0` is 0 for None and     *)
(* for 0.  mass_pm1_0 is kept in tenths (pm25 * 0.7 = pm25 * 7 / 10).      *)
(***************************************************************************)
HSBI_SENSOR_ID == 1
\* a payload that sends -1 for a value that is not reported
or0_sentinel(o) == IF IsNone(o) THEN -1 ELSE o[1]

\* `x or 0`
or0(o) == IF IsNone(o) \/ o = Some(0) THEN 0 ELSE o[1]

hsbi_payload(m) ==
    [id |-> HSBI_SENSOR_ID, ts |-> strftime(m.timestamp),
     temp |-> or0(m.temperature), hum |-> or0(m.humidity),
     pres |-> or0(m.pressure),
     mass_pm2_5 |-> or0(m.pm25), mass_pm10 |-> or0(m.pm10),
     mass_pm1_0_tenths |-> or0(m.pm25) * 7, mass_pm4 |-> or0(m.pm10),
     number_pm0_5 |-> 0, number_pm1_0 |-> 0, number_pm2_5 |-> 0,
     number_pm4 |-> 0, number_pm10 |-> 0]

(***************************************************************************)
(* The collector process.                                                  *)
(***************************************************************************)
\* Config: the enable flags, and whether the string settings are non-empty
\* (csv_dir: os.path.dirname(csv_file) is non-empty).  A setting that the
\* enable flags make irrelevant is kept at one value.
Configs ==
    { c \in [enable_database : BOOLEAN, enable_csv : BOOLEAN,
             enable_hsbi : BOOLEAN, airly_api_key : BOOLEAN,
             hsbi_api_url : BOOLEAN, csv_dir : BOOLEAN] :
        /\ (~c.enable_csv => c.csv_dir)
        /\ (~c.enable_hsbi => ~c.hsbi_api_url) }

Funcs == { "fetch_from_airly", "save_to_database", "save_to_csv", "send_to_hsbi" }
Counted == Funcs \cup { "GET", "POST" }
NoCalls == [f \in Counted |-> 0]
NoRets == [f \in Funcs |-> "none"]
World == [table |-> table, csv_file |-> csv_file, hsbi_posts |-> hsbi_posts]

Called(f) == calls' = [calls EXCEPT ![f] = @ + 1]
Returned(f, r) == rets' = [rets EXCEPT ![f] = r]

\* what the store, the file system and the network can answer
ConnectOutcomes == { "ok", "connect_error" }
DbOutcomes == { "ok", "execute_error", "commit_error", "conn_lost" }
CsvOutcomes == { "ok", "makedirs_error", "open_error", "write_error" }
HttpOutcomes == { "ok", "error" }

BoolStr(b) == IF b THEN "True" ELSE "False"

\* a fetch that does not look at the key
key_configured_always(c) == TRUE

\* fetch_from_airly, line 153: `if not self.config.airly_api_key`
key_configured(c) == c.airly_api_key

\* a fetch that tries a failed request once more
get_attempts_retry(o) == IF o = "error" THEN 2 ELSE 1

\* fetch_from_airly, lines 157-167: requests.get is called once; when it
\* raises, the handler returns None
get_attempts(o) == 1

\* collect_once, lines 325-327: data = self.fetch_from_airly(); if not data.
\* P: the JSON documents the provider may answer with
Fetch(P) ==
    /\ pc = "fetch"
    /\ \/ \* no API key: no request is made
          /\ ~key_configured(config)
          /\ data' = EmptyDict
          /\ calls' = [calls EXCEPT !["fetch_from_airly"] = @ + 1]
          /\ Returned("fetch_from_airly", "None")
       \/ \* the request raises RequestException (transport, timeout, status)
          /\ key_configured(config)
          /\ data' = EmptyDict
          /\ calls' = [calls EXCEPT !["fetch_from_airly"] = @ + 1,
                                    !["GET"] = @ + get_attempts("error")]
          /\ Returned("fetch_from_airly", "None")
       \/ \* the request returns a JSON document
          /\ key_configured(config)
          /\ \E p \in P : data' = p
          /\ calls' = [calls EXCEPT !["fetch_from_airly"] = @ + 1,
                                    !["GET"] = @ + get_attempts("ok")]
          /\ Returned("fetch_from_airly", "data")
    /\ IF Truthy(data')
       THEN pc' = "parse" /\ UNCHANGED cycle_result
       ELSE pc' = "end" /\ cycle_result' = "False"
    /\ UNCHANGED << world_vars, config, once, cycle, measurement, success,
                    db_conn, exit_status, before, mig_vars,
                    peer, api >>

FetchFromAirly == Fetch(CollectorPayloads)

\* a collect_once that forwards before it stores
after_stage_forward_first(stage) ==
    CASE stage = "parse" -> "hsbi"
      [] stage = "hsbi" -> "db"
      [] stage = "db" -> "csv"
      [] stage = "csv" -> "return"

\* collect_once, lines 329-346: the statement that follows each stage when
\* the stage neither returns nor raises
after_stage(stage) ==
    CASE stage = "parse" -> "db"
      [] stage = "db" -> "csv"
      [] stage = "csv" -> "hsbi"
      [] stage = "hsbi" -> "return"

\* collect_once, lines 329-333
ParseMeasurement ==
    /\ pc = "parse"
    /\ measurement' = parse_measurement(data, Now(cycle))
    /\ IF IsNone(measurement')
       THEN pc' = "end" /\ cycle_result' = "False" /\ UNCHANGED success
       ELSE pc' = after_stage("parse") /\ success' = TRUE /\ UNCHANGED cycle_result
    /\ UNCHANGED << world_vars, config, once, cycle, data, db_conn, calls,
                    rets, exit_status, before, mig_vars,
                    peer, api >>

\* a collect_once that keeps `success` whatever the sink returned
success_after_ignoring(s, r) == s

\* collect_once, lines 336-337 and 340-341: if not <sink>: success = False
success_after(s, r) == IF r = "False" THEN FALSE ELSE s

\* lines 253-256 of save_to_database and 260-263 of migrate_csv: the
\* handler rolls back and returns False; on a lost connection the rollback
\* may itself raise, and the exception leaves the function
rollback_results(c) == IF c = "lost" THEN { "False", "raised" } ELSE { "False" }

\* collect_once, line 335, and save_to_database, lines 211-222: connect
DbConnect ==
    /\ pc = "db"
    /\ IF config.enable_database
       THEN \E o \in ConnectOutcomes :
              /\ Called("save_to_database")
              /\ IF o = "ok"
                 THEN /\ db_conn' = "open"
                      /\ pc' = "db_execute"
                      /\ UNCHANGED << rets, success >>
                 ELSE /\ Returned("save_to_database", "False")
                      /\ success' = success_after(success, "False")
                      /\ pc' = after_stage("db")
                      /\ UNCHANGED db_conn
       ELSE /\ pc' = after_stage("db")
            /\ UNCHANGED << calls, rets, success, db_conn >>
    /\ UNCHANGED << world_vars, config, once, cycle, data, measurement,
                    cycle_result, exit_status, before, mig_vars,
                    peer, api >>

\* save_to_database, lines 225-252: the INSERT and the commit
DbExecute ==
    /\ pc = "db_execute"
    /\ \E o \in DbOutcomes :
         IF o = "ok"
         THEN /\ table' = Append(table, db_row(measurement[1]))
              /\ Returned("save_to_database", "True")
              /\ pc' = "db_close"
              /\ UNCHANGED db_conn
         ELSE /\ db_conn' = IF o = "conn_lost" THEN "lost" ELSE db_conn
              /\ pc' = "db_rollback"
              /\ UNCHANGED << table, rets >>
    /\ UNCHANGED << csv_file, hsbi_posts, config, once, cycle, data,
                    measurement, success, calls, cycle_result, exit_status,
                    before, mig_vars,
                    peer, api >>

\* save_to_database, lines 253-256: the MySQLError handler
DbRollback ==
    /\ pc = "db_rollback"
    /\ \E r \in rollback_results(db_conn) : Returned("save_to_database", r)
    /\ pc' = "db_close"
    /\ UNCHANGED << world_vars, config, once, cycle, data, measurement,
                    success, db_conn, calls, cycle_result, exit_status,
                    before, mig_vars,
                    peer, api >>

\* a finally block that an exception in flight skips
conn_after_finally_unless_raised(c, r) == IF r = "raised" THEN c ELSE "closed"

\* save_to_database, lines 257-260: conn.close() runs on every way out of
\* the try statement; r is the pending return value or exception
conn_after_finally(c, r) == "closed"

\* save_to_database, lines 257-260 (finally), and collect_once, lines 336-337
DbClose ==
    /\ pc = "db_close"
    /\ db_conn' = conn_after_finally(db_conn, rets["save_to_database"])
    /\ success' = success_after(success, rets["save_to_database"])
    /\ IF rets["save_to_database"] = "raised"
       THEN pc' = "end" /\ cycle_result' = "raised"
       ELSE pc' = after_stage("db") /\ UNCHANGED cycle_result
    /\ UNCHANGED << world_vars, config, once, cycle, data, measurement,
                    calls, rets, exit_status, before, mig_vars,
                    peer, api >>

\* the return value of save_to_csv; os.makedirs is outside the try block
save_to_csv_result(o) ==
    CASE o = "ok" -> "True"
      [] o = "makedirs_error" -> "raised"
      [] OTHER -> "False"

\* the file after save_to_csv: header when the file did not exist, then the
\* row; a failed write leaves a file that open() created
save_to_csv_file(f, m, o) ==
    CASE o = "ok" -> Some((IF IsNone(f) THEN << header_line >> ELSE f[1])
                          \o << to_csv_row(m) >>)
      [] o = "write_error" -> IF IsNone(f) THEN Some(<< >>) ELSE f
      [] OTHER -> f

\* collect_once, lines 339-341, with save_to_csv
SaveToCsv ==
    /\ pc = "csv"
    /\ IF config.enable_csv
       THEN \E o \in CsvOutcomes :
              LET r == save_to_csv_result(o) IN
              /\ (o = "makedirs_error" => config.csv_dir)
              /\ Called("save_to_csv")
              /\ Returned("save_to_csv", r)
              /\ csv_file' = save_to_csv_file(csv_file, measurement[1], o)
              /\ success' = success_after(success, r)
              /\ IF r = "raised"
                 THEN pc' = "end" /\ cycle_result' = "raised"
                 ELSE pc' = after_stage("csv") /\ UNCHANGED cycle_result
       ELSE /\ pc' = after_stage("csv")
            /\ UNCHANGED << csv_file, calls, rets, success, cycle_result >>
    /\ UNCHANGED << table, hsbi_posts, config, once, cycle, data,
                    measurement, db_conn, exit_status, before, mig_vars,
                    peer, api >>

\* collect_once, lines 343-344, with send_to_hsbi; the result is dropped
SendToHsbi ==
    /\ pc = "hsbi"
    /\ IF config.enable_hsbi
       THEN IF ~config.hsbi_api_url
            THEN /\ Called("send_to_hsbi")
                 /\ Returned("send_to_hsbi", "False")
                 /\ UNCHANGED hsbi_posts
            ELSE \E o \in HttpOutcomes :
                   /\ calls' = [calls EXCEPT !["send_to_hsbi"] = @ + 1,
                                             !["POST"] = @ + 1]
                   /\ Returned("send_to_hsbi", BoolStr(o = "ok"))
                   /\ hsbi_posts' = IF o = "ok"
                                    THEN Append(hsbi_posts, hsbi_payload(measurement[1]))
                                    ELSE hsbi_posts
       ELSE UNCHANGED << hsbi_posts, calls, rets >>
    /\ pc' = after_stage("hsbi")
    /\ UNCHANGED << table, csv_file, config, once, cycle, data, measurement,
                    success, db_conn, cycle_result, exit_status, before,
                    mig_vars,
                    peer, api >>

\* collect_once, line 346: return success
collect_once_return(s) == BoolStr(s)

CollectReturn ==
    /\ pc = "return"
    /\ cycle_result' = collect_once_return(success)
    /\ pc' = "end"
    /\ UNCHANGED << world_vars, config, once, cycle, data, measurement,
                    success, db_conn, calls, rets, exit_status, before,
                    mig_vars,
                    peer, api >>

\* a main without sys.exit(1)
main_exit_status_zero(r) == 0

\* main, lines 389-395: exit status of the --once process; an exception
\* that leaves collect_once ends the process with status 1
main_exit_status(r) == IF r = "True" THEN 0 ELSE 1

\* a run without the try/except around collect_once
after_cycle_uncaught(is_once, r) ==
    IF is_once \/ r = "raised" THEN "exit" ELSE "sleep"

\* where the caller of collect_once goes next: main exits, run sleeps
after_cycle(is_once, r) == IF is_once THEN "exit" ELSE "sleep"

\* the caller of collect_once: main (--once) or the body of run's loop
CycleEnd ==
    /\ pc = "end"
    /\ pc' = after_cycle(once, cycle_result)
    /\ exit_status' = IF once THEN main_exit_status(cycle_result) ELSE exit_status
    /\ UNCHANGED << world_vars, config, once, cycle, data, measurement,
                    success, db_conn, calls, rets, cycle_result, before,
                    mig_vars,
                    peer, api >>

\* run, line 362 and back to line 352: the sleep ends, the next cycle starts
Wake ==
    /\ pc = "sleep"
    /\ cycle < MaxCycles
    /\ cycle' = cycle + 1
    /\ pc' = "fetch"
    /\ data' = EmptyDict
    /\ measurement' = None
    /\ success' = TRUE
    /\ calls' = NoCalls
    /\ rets' = NoRets
    /\ cycle_result' = "none"
    /\ before' = World
    /\ UNCHANGED << world_vars, config, once, db_conn, exit_status, mig_vars,
                    peer, api >>

\* the migration utility is not running
\* no second migration utility is running
PeerOff ==
    [pc |-> "off", idx |-> 0, pending |-> << >>, imported |-> 0,
     duplicate |-> 0, skipped |-> 0, result |-> "none"]

\* the REST server is not running
ApiOff ==
    [pc |-> "off", API_KEY |-> "", op |-> "none", x_api_key |-> << >>,
     valid |-> TRUE, measurement_id |-> 0, conn |-> "none", status |-> 0,
     touched |-> FALSE, before |-> << >>, served |-> 0, next_id |-> 1]

MigrationOff ==
    /\ m_pc = "off"
    /\ m_run = 0
    /\ skip_duplicates = TRUE
    /\ m_idx = 0
    /\ rows_imported = 0
    /\ rows_skipped = 0
    /\ rows_duplicate = 0
    /\ pending = << >>
    /\ conn = "none"
    /\ m_before = [table |-> << >>, faults |-> 0]
    /\ m_result = "none"
    /\ m_exit = -1
    /\ row_log = << >>
    /\ m_log = << >>
    /\ fault_budget = 0
    /\ faults = << >>

Init ==
    /\ table = << >>
    /\ csv_file = None
    /\ hsbi_posts = << >>
    /\ config \in Configs
    /\ once \in BOOLEAN
    /\ pc = "fetch"
    /\ cycle = 1
    /\ data = EmptyDict
    /\ measurement = None
    /\ success = TRUE
    /\ db_conn = "none"
    /\ calls = NoCalls
    /\ rets = NoRets
    /\ cycle_result = "none"
    /\ exit_status = -1
    /\ before = [table |-> << >>, csv_file |-> None, hsbi_posts |-> << >>]
    /\ MigrationOff
    /\ peer = PeerOff
    /\ api = ApiOff

Next ==
    \/ FetchFromAirly
    \/ ParseMeasurement
    \/ DbConnect
    \/ DbExecute
    \/ DbRollback
    \/ DbClose
    \/ SaveToCsv
    \/ SendToHsbi
    \/ CollectReturn
    \/ CycleEnd
    \/ Wake

Spec == Init /\ [][Next]_vars

(***************************************************************************)
(* The migration utility: migrate_csv of db_setup.py.                      *)
(***************************************************************************)
DEFAULT_STATION_ID == 3387

\* the value csv.DictReader gives a column the row is too short for
NoneCell == [k |-> "none", n |-> 0, s |-> ""]
\* `if row[x]`: a non-empty string
cell_truthy(c) == c # Empty /\ c # NoneCell

\* csv.DictReader: the first line names the columns, every further line is
\* a dict from column name to cell
dict_reader(lines) ==
    IF lines = << >> THEN << >>
    ELSE LET names == lines[1]
             body  == Tail(lines)
         IN  [i \in 1..Len(body) |->
                [h \in { names[j].s : j \in 1..Len(names) } |->
                    LET j == CHOOSE j \in 1..Len(names) : names[j].s = h
                    IN  IF j <= Len(body[i]) THEN body[i][j] ELSE NoneCell]]

\* the rows migrate_csv iterates over
reader == IF IsNone(csv_file) THEN << >> ELSE dict_reader(csv_file[1])

NumericColumns == { "lat", "lon", "hour_utc", "minute_utc", "PM25", "PM10",
                    "TEMPERATURE", "HUMIDITY", "PRESSURE", "AQI" }

\* lines 214-215: datetime.strptime(row['datetime_utc'], ...) and row['city']
\* raise nothing
key_parses(row) ==
    /\ "datetime_utc" \in DOMAIN row
    /\ row["datetime_utc"].k = "dt"
    /\ "city" \in DOMAIN row

\* lines 225-239: no float(), int() or row[...] raises
values_parse(row) ==
    /\ \A c \in NumericColumns :
          c \in DOMAIN row /\ (cell_truthy(row[c]) => row[c].k = "num")
    /\ ("station_id" \in DOMAIN row /\ cell_truthy(row["station_id"]))
          => row["station_id"].k = "num"

\* a conversion that takes the text of a zero for an empty field
opt_number_falsy(c) == IF cell_truthy(c) /\ c.n # 0 THEN Some(c.n) ELSE None

\* `float(x) if x else None`
opt_number(c) == IF cell_truthy(c) THEN Some(c.n) ELSE None

\* lines 225-239: the tuple handed to the INSERT
insert_values(row) ==
    [datetime_utc |-> row["datetime_utc"].n, city |-> row["city"].s,
     lat |-> opt_number(row["lat"]), lon |-> opt_number(row["lon"]),
     hour_utc |-> opt_number(row["hour_utc"]),
     minute_utc |-> opt_number(row["minute_utc"]),
     pm25 |-> opt_number(row["PM25"]), pm10 |-> opt_number(row["PM10"]),
     temperature |-> opt_number(row["TEMPERATURE"]),
     humidity |-> opt_number(row["HUMIDITY"]),
     pressure |-> opt_number(row["PRESSURE"]), aqi |-> opt_number(row["AQI"]),
     station_id |-> IF "station_id" \in DOMAIN row /\ cell_truthy(row["station_id"])
                    THEN Some(row["station_id"].n)
                    ELSE Some(DEFAULT_STATION_ID)]

\* SCHEMA_SQL: the NOT NULL columns; the INSERT of a NULL there is an error
insert_rejected(row) ==
    LET v == insert_values(row)
    IN  \/ row["city"] = NoneCell
        \/ IsNone(v.lat) \/ IsNone(v.lon)
        \/ IsNone(v.hour_utc) \/ IsNone(v.minute_utc)

\* check_query, line 201: SELECT id ... WHERE datetime_utc = %s AND city = %s
is_duplicate(rows, dt, city) ==
    \E i \in DOMAIN rows : rows[i].datetime_utc = dt /\ rows[i].city = city

\* a probe that also compares a measured value
probe_hits_by_value(rows, row) ==
    \E i \in DOMAIN rows :
        /\ rows[i].datetime_utc = row["datetime_utc"].n
        /\ rows[i].city = row["city"].s
        /\ rows[i].pm25 = opt_number(row["PM25"])

\* the probe of lines 218-220 for one row; `rows` is what the transaction sees
probe_hits(rows, row) ==
    is_duplicate(rows, row["datetime_utc"].n, row["city"].s)

\* a probe that misses the rows of the open transaction
visible_committed == table

\* the rows the open transaction sees: the committed ones and its own
visible == table \o pending

\* the row executes at least one statement on the connection
touches_db(row, dedup) == key_parses(row) /\ (dedup \/ values_parse(row))

\* a loop body that probes whatever skip_duplicates says
row_outcome_always_probe(row, rows, dedup, db_fails) ==
    IF ~key_parses(row) THEN "skipped"
    ELSE IF db_fails THEN "skipped"
    ELSE IF probe_hits(rows, row) THEN "duplicate"
    ELSE IF ~values_parse(row) THEN "skipped"
    ELSE IF insert_rejected(row) THEN "skipped"
    ELSE "imported"

\* a loop body whose probe runs after the insert has been counted
row_outcome_no_probe(row, rows, dedup, db_fails) ==
    IF ~key_parses(row) THEN "skipped"
    ELSE IF ~values_parse(row) THEN "skipped"
    ELSE IF db_fails \/ insert_rejected(row) THEN "skipped"
    ELSE "imported"

\* lines 212-246, one pass of the loop body: what becomes of the row.
\* db_fails: the next statement on the connection raises
row_outcome(row, rows, dedup, db_fails) ==
    IF ~key_parses(row) THEN "skipped"
    ELSE IF dedup /\ db_fails THEN "skipped"
    ELSE IF dedup /\ probe_hits(rows, row) THEN "duplicate"
    ELSE IF ~values_parse(row) THEN "skipped"
    ELSE IF db_fails \/ insert_rejected(row) THEN "skipped"
    ELSE "imported"

\* a loop that inserts the rows it counts as duplicates as well
pending_after_with_duplicates(p, row, o) ==
    IF o \in { "imported", "duplicate" } THEN Append(p, insert_values(row)) ELSE p

\* a row handler that rolls the transaction back
pending_after_rollback(p, row, o) ==
    CASE o = "imported" -> Append(p, insert_values(row))
      [] o = "skipped" -> << >>
      [] OTHER -> p

\* line 241: the INSERT joins the open transaction; lines 222 and 244-246
\* leave the transaction alone
pending_after(p, row, o) ==
    IF o = "imported" THEN Append(p, insert_values(row)) ELSE p

\* a connection in autocommit mode: every INSERT is durable at once
table_after_insert_autocommit(t, row, o) ==
    IF o = "imported" THEN Append(t, insert_values(row)) ELSE t

\* lines 189-193 and 241: the connection is opened without autocommit, so
\* the INSERT leaves the committed table as it is
table_after_insert(t, row, o) == t

ConnectFaults == { "none", "connect_error" }
RowFaults == { "none", "store_error", "conn_lost", "read_error" }
CommitFaults == { "none", "commit_error", "conn_lost" }

\* a fault is taken from the budget
Inject(f) ==
    /\ (f # "none") => fault_budget > 0
    /\ fault_budget' = IF f = "none" THEN fault_budget ELSE fault_budget - 1
    /\ faults' = IF f = "none" THEN faults ELSE Append(faults, f)

\* lines 181-206: the file check, the connection, the counters
MigrateStart ==
    /\ m_pc = "start"
    /\ \E f \in ConnectFaults :
         /\ Inject(f)
         /\ (f # "none") => ~IsNone(csv_file)
         /\ IF IsNone(csv_file) \/ f = "connect_error"
            THEN /\ m_pc' = "done"
                 /\ m_result' = "False"
                 /\ UNCHANGED << conn, m_idx >>
            ELSE /\ m_pc' = "rows"
                 /\ conn' = "open"
                 /\ m_idx' = 1
                 /\ UNCHANGED m_result
    /\ UNCHANGED << world_vars, collector_vars, peer, api, m_run, skip_duplicates,
                    rows_imported, rows_skipped, rows_duplicate, pending,
                    m_before, m_exit, row_log, m_log >>

\* one pass of the loop of lines 211-246, or the outer handler when the
\* reader itself raises
MigrateRow ==
    /\ m_pc = "rows"
    /\ m_idx <= Len(reader)
    /\ \E f \in RowFaults :
         LET row == reader[m_idx]
             c   == IF f = "conn_lost" THEN "lost" ELSE conn
             o   == row_outcome(row, visible, skip_duplicates,
                                c = "lost" \/ f = "store_error")
         IN  /\ Inject(f)
             /\ (f = "store_error") =>
                    (conn = "open" /\ touches_db(row, skip_duplicates))
             /\ (f = "conn_lost") => conn = "open"
             /\ conn' = c
             /\ IF f = "read_error"
                THEN /\ m_pc' = "done"
                     /\ \E r \in rollback_results(c) : m_result' = r
                     /\ pending' = << >>
                     /\ UNCHANGED << table, m_idx, rows_imported,
                                     rows_skipped, rows_duplicate, row_log >>
                ELSE /\ m_idx' = m_idx + 1
                     /\ row_log' = Append(row_log, o)
                     /\ rows_imported' = rows_imported + (IF o = "imported" THEN 1 ELSE 0)
                     /\ rows_duplicate' = rows_duplicate + (IF o = "duplicate" THEN 1 ELSE 0)
                     /\ rows_skipped' = rows_skipped + (IF o = "skipped" THEN 1 ELSE 0)
                     /\ pending' = pending_after(pending, row, o)
                     /\ table' = table_after_insert(table, row, o)
                     /\ UNCHANGED << m_pc, m_result >>
    /\ UNCHANGED << csv_file, hsbi_posts, collector_vars, peer, api, m_run,
                    skip_duplicates, m_before, m_exit, m_log >>

\* a commit that goes through although the connection is gone
commit_succeeds_always(c, f) == TRUE

\* line 248: connection.commit() returns instead of raising
commit_succeeds(c, f) == c = "open" /\ f = "none"

\* lines 248-263: the single commit after the loop, then close; or the
\* outer handler with its rollback
MigrateCommit ==
    /\ m_pc = "rows"
    /\ m_idx > Len(reader)
    /\ \E f \in CommitFaults :
         LET c == IF f = "conn_lost" THEN "lost" ELSE conn
         IN  /\ Inject(f)
             /\ (f # "none") => conn = "open"
             /\ IF commit_succeeds(conn, f)
                THEN /\ table' = table \o pending
                     /\ m_result' = "True"
                     /\ conn' = "closed"
                ELSE /\ UNCHANGED table
                     /\ \E r \in rollback_results(c) : m_result' = r
                     /\ conn' = c
    /\ pending' = << >>
    /\ m_pc' = "done"
    /\ UNCHANGED << csv_file, hsbi_posts, collector_vars, peer, api, m_run,
                    skip_duplicates, m_idx, rows_imported, rows_skipped,
                    rows_duplicate, m_before, m_exit, row_log, m_log >>

\* what is remembered of a finished run
RunSummary ==
    [imported |-> rows_imported, duplicate |-> rows_duplicate,
     skipped |-> rows_skipped, result |-> m_result, row_log |-> row_log,
     table_before |-> m_before.table, table_after |-> table,
     faults |-> SubSeq(faults, m_before.faults + 1, Len(faults))]

\* main, lines 341-343, and line 358: the value migrate_csv returns is
\* dropped and main returns, so the status is 0; an exception that leaves
\* migrate_csv ends the process with status 1
migrate_exit_status(r) == IF r = "raised" THEN 1 ELSE 0

\* main, lines 341-343: the process ends
MigrateExit ==
    /\ m_pc = "done"
    /\ m_pc' = "exited"
    /\ m_exit' = migrate_exit_status(m_result)
    /\ UNCHANGED << world_vars, collector_vars, peer, api, m_run, skip_duplicates, m_idx,
                    rows_imported, rows_skipped, rows_duplicate, pending,
                    conn, m_before, m_result, row_log, m_log, fault_budget,
                    faults >>

\* the utility is started again over the same file
MigrateAgain ==
    /\ m_pc = "exited"
    /\ m_run < MaxRuns
    /\ m_log' = Append(m_log, RunSummary)
    /\ m_run' = m_run + 1
    /\ m_pc' = "start"
    /\ m_idx' = 0
    /\ rows_imported' = 0
    /\ rows_skipped' = 0
    /\ rows_duplicate' = 0
    /\ pending' = << >>
    /\ conn' = "none"
    /\ m_before' = [table |-> table, faults |-> Len(faults)]
    /\ m_result' = "none"
    /\ m_exit' = -1
    /\ row_log' = << >>
    /\ UNCHANGED << world_vars, collector_vars, peer, api, skip_duplicates,
                    fault_budget, faults >>

(***************************************************************************)
(* The CSV files handed to the migration: the header of the collector's    *)
(* file sink and up to MaxRows rows.                                       *)
(***************************************************************************)
CsvRow(dt, city, lat, pm25) ==
    << dt, Txt(city), lat, Num(LONGITUDE), Num(1), Num(1),
       pm25, Empty, Num(0), Empty, Empty, Num(40) >>

FileRows ==
    { CsvRow(Dt(3660), "Gdansk", Num(LATITUDE), Num(10)),
      CsvRow(Dt(3660), "Gdansk", Num(LATITUDE), Num(20)),
      CsvRow(Dt(3660), "Sopot", Num(LATITUDE), Num(10)),
      CsvRow(Dt(7320), "Gdansk", Num(LATITUDE), Empty),
      CsvRow(Dt(3660), "Gdansk", Num(LATITUDE), Garbage),
      CsvRow(Garbage, "Gdansk", Num(LATITUDE), Num(10)),
      CsvRow(Dt(7320), "Gdansk", Empty, Num(10)) }

SeqsUpTo(S, n) == UNION { [1..k -> S] : k \in 0..n }

MigrationFiles ==
    { None } \cup { Some(<< header_line >> \o body) : body \in SeqsUpTo(FileRows, MaxRows) }

\* a row the table may hold before the first run
StoredRow ==
    [datetime_utc |-> 3660, city |-> "Gdansk",
     lat |-> Some(LATITUDE), lon |-> Some(LONGITUDE),
     hour_utc |-> Some(1), minute_utc |-> Some(1),
     pm25 |-> Some(30), pm10 |-> None, temperature |-> None,
     humidity |-> None, pressure |-> None, aqi |-> None,
     station_id |-> Some(INSTALLATION_ID)]
InitialTables == { << >>, << StoredRow >> }

\* the collector is not running
CollectorOff ==
    /\ config = [enable_database |-> TRUE, enable_csv |-> TRUE,
                 enable_hsbi |-> FALSE, airly_api_key |-> TRUE,
                 hsbi_api_url |-> FALSE, csv_dir |-> TRUE]
    /\ once = TRUE
    /\ pc = "off"
    /\ cycle = 0
    /\ data = EmptyDict
    /\ measurement = None
    /\ success = TRUE
    /\ db_conn = "none"
    /\ calls = NoCalls
    /\ rets = NoRets
    /\ cycle_result = "none"
    /\ exit_status = -1
    /\ before = [table |-> << >>, csv_file |-> None, hsbi_posts |-> << >>]

\* the utility is started on a file and a store
MigrateInit ==
    /\ CollectorOff
    /\ table \in InitialTables
    /\ csv_file \in MigrationFiles
    /\ hsbi_posts = << >>
    /\ skip_duplicates \in BOOLEAN
    /\ m_pc = "start"
    /\ m_run = 1
    /\ m_idx = 0
    /\ rows_imported = 0
    /\ rows_skipped = 0
    /\ rows_duplicate = 0
    /\ pending = << >>
    /\ conn = "none"
    /\ m_before = [table |-> table, faults |-> 0]
    /\ m_result = "none"
    /\ m_exit = -1
    /\ row_log = << >>
    /\ m_log = << >>
    /\ faults = << >>

\* one run of the utility in an environment that injects up to MaxFaults
\* faults
InitMigrate ==
    MigrateInit /\ fault_budget = MaxFaults /\ peer = PeerOff /\ api = ApiOff

NextMigrate ==
    \/ MigrateStart
    \/ MigrateRow
    \/ MigrateCommit
    \/ MigrateExit

SpecMigrate == InitMigrate /\ [][NextMigrate]_vars

\* the utility run MaxRuns times in sequence over the same file, in an
\* environment without faults
InitRerun == MigrateInit /\ fault_budget = 0 /\ peer = PeerOff /\ api = ApiOff

NextRerun ==
    \/ MigrateStart
    \/ MigrateRow
    \/ MigrateCommit
    \/ MigrateExit
    \/ MigrateAgain

SpecRerun == InitRerun /\ [][NextRerun]_vars

(***************************************************************************)
(* Two migration utilities at once (db_setup.py run twice at the same      *)
(* time over the same file and store), each with its own connection and    *)
(* its own transaction.  The second one is the record `peer`.  A probe     *)
(* sees the rows committed so far and the rows of its own transaction; a   *)
(* transaction that reads from a snapshot sees no more than that.          *)
(***************************************************************************)
\* what the peer's open transaction sees
peer_visible == table \o peer.pending

\* lines 181-206 in the peer: the file is there, the connection opens
PeerStart ==
    /\ peer.pc = "start"
    /\ ~IsNone(csv_file)
    /\ peer' = [peer EXCEPT !.pc = "rows", !.idx = 1]
    /\ UNCHANGED << world_vars, collector_vars, mig_vars, api >>

\* lines 208-246 in the peer: one row of the file
PeerRow ==
    /\ peer.pc = "rows"
    /\ peer.idx <= Len(reader)
    /\ LET row == reader[peer.idx]
           o   == row_outcome(row, peer_visible, TRUE, FALSE)
       IN  peer' = [peer EXCEPT
                      !.idx = @ + 1,
                      !.imported = @ + (IF o = "imported" THEN 1 ELSE 0),
                      !.duplicate = @ + (IF o = "duplicate" THEN 1 ELSE 0),
                      !.skipped = @ + (IF o = "skipped" THEN 1 ELSE 0),
                      !.pending = pending_after(@, row, o)]
    /\ UNCHANGED << world_vars, collector_vars, mig_vars, api >>

\* line 248 in the peer: its commit
PeerCommit ==
    /\ peer.pc = "rows"
    /\ peer.idx > Len(reader)
    /\ table' = table \o peer.pending
    /\ peer' = [peer EXCEPT !.pc = "done", !.pending = << >>, !.result = "True"]
    /\ UNCHANGED << csv_file, hsbi_posts, collector_vars, mig_vars, api >>

\* both utilities are started with deduplication on the same file
InitConcurrent ==
    /\ MigrateInit
    /\ ~IsNone(csv_file)
    /\ skip_duplicates = TRUE
    /\ fault_budget = 0
    /\ peer = [PeerOff EXCEPT !.pc = "start"]
    /\ api = ApiOff

NextConcurrent ==
    \/ MigrateStart
    \/ MigrateRow
    \/ MigrateCommit
    \/ PeerStart
    \/ PeerRow
    \/ PeerCommit

SpecConcurrent == InitConcurrent /\ [][NextConcurrent]_vars

(***************************************************************************)
(* The REST layer (api.py).  One request at a time is followed through     *)
(* the steps FastAPI takes for it: the dependencies in the order the       *)
(* endpoint declares them (get_db, then verify_api_key), the validation of *)
(* the request, the rate limiter, the endpoint body.  A row of the table   *)
(* is here its id and its city.                                            *)
(***************************************************************************)
Ops == { "health", "list", "latest", "stats", "add", "delete" }
\* the endpoints that declare conn=Depends(get_db),
\* api_key=Depends(verify_api_key)
MeasurementOps == Ops \ { "health" }
\* values of the environment variable API_KEY (line 53)
ServerKeys == { "", "secret" }
\* the X-API-Key header of a request: absent, or one of these values
HeaderValues == { "", "wrong", "secret" }
MeasurementIds == 1..2

\* a key check that lets every key through once a server key is configured
verify_api_key_any(server_key, x_api_key) ==
    IF server_key = "" THEN 500 ELSE 0

\* verify_api_key, lines 102-108: the status it raises, 0 when it returns
verify_api_key(server_key, x_api_key) ==
    IF server_key = "" THEN 500
    ELSE IF x_api_key # server_key THEN 401
    ELSE 0

\* Header(..., alias="X-API-Key") of line 102 and the parameters of the
\* endpoint: an HTTPException of the dependency ends the request at once, a
\* missing header or an invalid parameter is answered 422 once the
\* dependencies are solved
dependency_status(server_key, header, valid) ==
    IF ~IsNone(header) /\ verify_api_key(server_key, header[1]) # 0
    THEN verify_api_key(server_key, header[1])
    ELSE IF IsNone(header) \/ ~valid THEN 422
    ELSE 0

\* the answer of the request is sent; get_db's finally closes the connection
Respond(status) ==
    [api EXCEPT !.pc = "responded", !.status = status,
                !.conn = IF @ = "open" THEN "closed" ELSE @]

\* a request arrives
ApiRequest ==
    /\ api.pc \in { "idle", "responded" }
    /\ api.served < MaxRequests
    /\ \E op \in Ops, h \in { None } \cup { Some(v) : v \in HeaderValues },
          ok \in BOOLEAN, id \in MeasurementIds :
         api' = [api EXCEPT !.pc = IF op = "health" THEN "endpoint" ELSE "get_db",
                            !.op = op, !.x_api_key = h, !.valid = ok,
                            !.measurement_id = id, !.conn = "none",
                            !.status = 0, !.touched = FALSE,
                            !.before = table, !.served = @ + 1]
    /\ UNCHANGED << world_vars, collector_vars, mig_vars, peer >>

\* get_db, lines 90-99: the first dependency of every /measurements endpoint
get_db ==
    /\ api.pc = "get_db"
    /\ \E connected \in BOOLEAN :
         api' = IF connected
                THEN [api EXCEPT !.pc = "verify_api_key", !.conn = "open"]
                ELSE Respond(500)
    /\ UNCHANGED << world_vars, collector_vars, mig_vars, peer >>

\* the second dependency, lines 102-108, and the validation of the request
VerifyApiKey ==
    /\ api.pc = "verify_api_key"
    /\ LET st == dependency_status(api.API_KEY, api.x_api_key, api.valid)
       IN  api' = IF st = 0 THEN [api EXCEPT !.pc = "endpoint"] ELSE Respond(st)
    /\ UNCHANGED << world_vars, collector_vars, mig_vars, peer >>

\* health_check, lines 112-115
health_check ==
    /\ api.pc = "endpoint"
    /\ api.op = "health"
    /\ api' = Respond(200)
    /\ UNCHANGED << world_vars, collector_vars, mig_vars, peer >>

\* @limiter.limit("100/minute"): the request is over the limit
RateLimited ==
    /\ api.pc = "endpoint"
    /\ api.op \in MeasurementOps
    /\ api' = Respond(429)
    /\ UNCHANGED << world_vars, collector_vars, mig_vars, peer >>

\* get_measurements, get_latest_measurement and get_stats, lines 118-229:
\* a SELECT on the connection
ReadMeasurements ==
    /\ api.pc = "endpoint"
    /\ api.op \in { "list", "latest", "stats" }
    /\ \E store_ok \in BOOLEAN :
         api' = [Respond(IF ~store_ok THEN 500
                         ELSE IF api.op = "latest" /\ table = << >> THEN 404
                         ELSE 200)
                   EXCEPT !.touched = TRUE]
    /\ UNCHANGED << world_vars, collector_vars, mig_vars, peer >>

\* add_measurement, lines 232-280: INSERT and commit, or rollback and 500
add_measurement ==
    /\ api.pc = "endpoint"
    /\ api.op = "add"
    /\ \E store_ok \in BOOLEAN :
         IF store_ok
         THEN /\ table' = Append(table, [id |-> api.next_id, city |-> CITY_NAME])
              /\ api' = [Respond(200) EXCEPT !.touched = TRUE, !.next_id = @ + 1]
         ELSE /\ UNCHANGED table
              /\ api' = [Respond(500) EXCEPT !.touched = TRUE]
    /\ UNCHANGED << csv_file, hsbi_posts, collector_vars, mig_vars, peer >>

\* the table without the rows of the given id
without_id(t, id) == SelectSeq(t, LAMBDA r : r.id # id)

\* delete_measurement, lines 283-301: DELETE and commit, 404 when no row
\* had the id
delete_measurement ==
    /\ api.pc = "endpoint"
    /\ api.op = "delete"
    /\ \E store_ok \in BOOLEAN :
         IF store_ok
         THEN /\ table' = without_id(table, api.measurement_id)
              /\ api' = [Respond(IF without_id(table, api.measurement_id) = table
                                 THEN 404 ELSE 200)
                           EXCEPT !.touched = TRUE]
         ELSE /\ UNCHANGED table
              /\ api' = [Respond(500) EXCEPT !.touched = TRUE]
    /\ UNCHANGED << csv_file, hsbi_posts, collector_vars, mig_vars, peer >>

\* the server starts with or without API_KEY, on an empty table or on a
\* table of one row
InitApi ==
    /\ CollectorOff
    /\ MigrationOff
    /\ peer = PeerOff
    /\ csv_file = None
    /\ hsbi_posts = << >>
    /\ \E rows \in 0..1 :
         /\ table = [i \in 1..rows |-> [id |-> i, city |-> CITY_NAME]]
         /\ \E k \in ServerKeys :
              api = [ApiOff EXCEPT !.pc = "idle", !.API_KEY = k,
                                   !.next_id = rows + 1]

NextApi ==
    \/ ApiRequest
    \/ get_db
    \/ VerifyApiKey
    \/ health_check
    \/ RateLimited
    \/ ReadMeasurements
    \/ add_measurement
    \/ delete_measurement

SpecApi == InitApi /\ [][NextApi]_vars

(***************************************************************************)
(* The file sink's file as the historical source: one --once run of the    *)
(* collector with the file and forwarding sinks enabled, fed any provider  *)
(* payload, and then `db_setup.py migrate` over the file it wrote, with    *)
(* the same configuration and store.                                       *)
(***************************************************************************)
FetchFromProvider == Fetch(ProviderPayloads)

\* db_setup.py main, lines 341-343: migrate_csv(csv_file), deduplication
\* at its default
MigrateCollected ==
    /\ pc = "exit"
    /\ m_pc = "off"
    /\ m_pc' = "start"
    /\ m_run' = 1
    /\ skip_duplicates' = TRUE
    /\ m_before' = [table |-> table, faults |-> 0]
    /\ UNCHANGED << world_vars, collector_vars, peer, api, m_idx, rows_imported,
                    rows_skipped, rows_duplicate, pending, conn, m_result,
                    m_exit, row_log, m_log, fault_budget, faults >>

PipelineConfigs ==
    { c \in Configs : c.enable_csv /\ c.csv_dir /\ c.enable_hsbi /\ c.hsbi_api_url }

InitPipeline ==
    /\ table = << >>
    /\ csv_file = None
    /\ hsbi_posts = << >>
    /\ config \in PipelineConfigs
    /\ once = TRUE
    /\ pc = "fetch"
    /\ cycle = 1
    /\ data = EmptyDict
    /\ measurement = None
    /\ success = TRUE
    /\ db_conn = "none"
    /\ calls = NoCalls
    /\ rets = NoRets
    /\ cycle_result = "none"
    /\ exit_status = -1
    /\ before = [table |-> << >>, csv_file |-> None, hsbi_posts |-> << >>]
    /\ MigrationOff
    /\ peer = PeerOff
    /\ api = ApiOff

NextPipeline ==
    \/ FetchFromProvider
    \/ ParseMeasurement
    \/ DbConnect
    \/ DbExecute
    \/ DbRollback
    \/ DbClose
    \/ SaveToCsv
    \/ SendToHsbi
    \/ CollectReturn
    \/ CycleEnd
    \/ MigrateCollected
    \/ MigrateStart
    \/ MigrateRow
    \/ MigrateCommit
    \/ MigrateExit

SpecPipeline == InitPipeline /\ [][NextPipeline]_vars

(***************************************************************************)
(* Properties of the collector.                                            *)
(***************************************************************************)
\* the cycle is over: collect_once has returned or raised
CycleOver == pc \in { "end", "sleep", "exit" }
\* the cycle reached the fan-out: a Measurement was produced
ReachedFanOut == ~IsNone(measurement)

FetchReturnedData == rets["fetch_from_airly"] = "data" /\ Truthy(data)
SinkEnabled(f) ==
    CASE f = "save_to_database" -> config.enable_database
      [] f = "save_to_csv" -> config.enable_csv
      [] f = "send_to_hsbi" -> config.enable_hsbi
MandatorySinks == { "save_to_database", "save_to_csv" }
Sinks == { "save_to_database", "save_to_csv", "send_to_hsbi" }
MandatorySinksSucceeded ==
    \A f \in MandatorySinks : SinkEnabled(f) => rets[f] = "True"

\* C1: a finished cycle reports success exactly when the fetch returned
\* data, a Measurement was produced and every enabled sink among relational
\* and file returned success; the forwarding sink's result plays no part.
\* So {relational ok, file disabled, forwarding failed} is a success and
\* {relational failed, file ok} a failure.
C1_CycleOutcome ==
    CycleOver =>
      /\ (cycle_result = "True") <=>
            (FetchReturnedData /\ ReachedFanOut /\ MandatorySinksSucceeded)
      /\ ( /\ rets["save_to_database"] = "True"
           /\ ~config.enable_csv
           /\ rets["send_to_hsbi"] = "False" ) => cycle_result = "True"
      /\ ( /\ rets["save_to_database"] = "False"
           /\ rets["save_to_csv"] = "True" ) => cycle_result = "False"

C1_Witness ==
    /\ CycleOver
    /\ cycle_result = "True"
    /\ rets["save_to_database"] = "True"
    /\ ~config.enable_csv
    /\ rets["send_to_hsbi"] = "False"
    /\ calls["POST"] = 1

\* C2: in a cycle that reached the fan-out, every enabled sink is attempted
\* exactly once, whatever the other sinks did (connection or insert failure,
\* failure to create the directory or to write the file, HTTP error).
C2_EverySinkAttempted ==
    (CycleOver /\ ReachedFanOut) =>
        \A f \in Sinks : SinkEnabled(f) => calls[f] = 1

\* the payload has neither a "current" section carrying values nor a usable
\* first "history" entry
NoUsableData(d) ==
    /\ ~( "current" \in DOMAIN d
          /\ "values" \in DOMAIN d["current"]
          /\ d["current"]["values"] # << >> )
    /\ ~( "history" \in DOMAIN d
          /\ d["history"] # << >>
          /\ DOMAIN d["history"][1] # {} )

\* C3: when the fetch failed or the payload carries no usable data, the
\* cycle is reported failed, no sink is invoked, and the store, the file
\* and the forwarding endpoint are as they were when the cycle started.
C3_NoDataShortCircuit ==
    (CycleOver /\ (rets["fetch_from_airly"] = "None" \/ NoUsableData(data))) =>
      /\ cycle_result = "False"
      /\ \A f \in Sinks : calls[f] = 0
      /\ calls["POST"] = 0
      /\ World = before

C3_Witness ==
    /\ CycleOver
    /\ rets["fetch_from_airly"] = "data"
    /\ Truthy(data)
    /\ NoUsableData(data)
    /\ config.enable_database /\ config.enable_csv /\ config.enable_hsbi
    /\ cycle = 2
    /\ before.table # << >>

\* the continuous loop under the scheduling of a running process: a step
\* that can be taken is taken
FairSpec == Spec /\ WF_vars(Next)

Collecting ==
    pc \in { "fetch", "parse", "db", "db_execute", "db_rollback", "db_close",
             "csv", "hsbi", "return", "end" }

\* C4: the continuous loop has no terminal state.  Every Collecting phase,
\* whatever its outcome, ends in Idle (the sleep), Idle is left only for the
\* next Collecting phase, and the process never exits.
C4_LoopNeverExits ==
    /\ [](~once => (pc # "exit" /\ exit_status = -1))
    /\ [][(~once /\ pc = "end") => pc' = "sleep"]_vars
    /\ [][(~once /\ pc = "sleep") => (pc' = "fetch" /\ cycle' = cycle + 1)]_vars
    /\ ((~once /\ Collecting) ~> (pc = "sleep"))
    /\ ((~once /\ pc = "sleep" /\ cycle < MaxCycles) ~> (pc = "fetch"))

C4_Witness ==
    /\ ~once
    /\ cycle = 2
    /\ pc = "sleep"
    /\ cycle_result = "raised"

\* C5: --once runs exactly one cycle and exits; the exit status is zero
\* when the fetch, the normalization and every enabled mandatory sink
\* succeeded, and non-zero otherwise.
C5_OneShotExit ==
    once =>
      /\ cycle = 1
      /\ pc # "sleep"
      /\ (pc = "exit") <=> (exit_status # -1)
      /\ (pc = "exit") =>
            IF FetchReturnedData /\ ReachedFanOut /\ MandatorySinksSucceeded
            THEN exit_status = 0
            ELSE exit_status > 0

C5_Witness ==
    /\ once
    /\ pc = "exit"
    /\ exit_status = 1
    /\ rets["save_to_database"] = "True"
    /\ rets["save_to_csv"] = "False"

(***************************************************************************)
(* Properties of the migration.                                            *)
(***************************************************************************)
\* the faults injected into the current run
RunFaults == { faults[i] : i \in (m_before.faults + 1)..Len(faults) }

\* migrate_csv has returned or raised
MigrateOver == m_pc \in { "done", "exited" }
RunOver == MigrateOver /\ ~IsNone(csv_file)
\* the second of two runs over the file is over, deduplication enabled, and
\* neither run met a store, connection or read fault
TwoCleanRuns ==
    /\ m_run = 2
    /\ RunOver
    /\ skip_duplicates
    /\ faults = << >>

\* the identity key of a stored row and of a file row
StoredKey(r) == << r.datetime_utc, r.city >>
HasKey(row) == row["datetime_utc"].k = "dt"
FileKey(row) == << row["datetime_utc"].n, row["city"].s >>
RowsWithKey(rows, key) == { i \in DOMAIN rows : StoredKey(rows[i]) = key }

\* a row of the file parses: a timestamp, numbers or empty fields in the
\* numeric columns, and the required fields lat, lon, hour, minute present
Parseable(row) ==
    /\ HasKey(row)
    /\ \A c \in NumericColumns : row[c].k = "num" \/ row[c] = Empty
    /\ \A c \in { "lat", "lon", "hour_utc", "minute_utc" } : row[c] # Empty

FileKeys == { FileKey(reader[i]) : i \in { j \in DOMAIN reader : HasKey(reader[j]) } }
ParseableKeys ==
    { FileKey(reader[i]) : i \in { j \in DOMAIN reader : Parseable(reader[j]) } }
HoldsNoFileKey(rows) == \A k \in FileKeys : RowsWithKey(rows, k) = {}
NoRepeatedKey ==
    \A i, j \in DOMAIN reader :
        (i # j /\ HasKey(reader[i]) /\ HasKey(reader[j]))
            => FileKey(reader[i]) # FileKey(reader[j])

\* C6: two runs in sequence over the same file with deduplication, from a
\* store holding none of the file's keys: the store ends with exactly one
\* row per distinct (timestamp, city) of the file's parseable rows, the
\* second run inserts nothing, and no key of the file is stored twice.
C6_MigrationIdempotent ==
    (TwoCleanRuns /\ HoldsNoFileKey(m_log[1].table_before)) =>
      /\ m_log[1].result = "True" /\ m_result = "True"
      /\ rows_imported = 0
      /\ table = m_log[1].table_after
      /\ \A k \in ParseableKeys : Cardinality(RowsWithKey(table, k)) = 1
      /\ \A k \in FileKeys : Cardinality(RowsWithKey(table, k)) <= 1
      /\ Len(table) = Len(m_log[1].table_before) + Cardinality(ParseableKeys)

C6_Witness ==
    /\ TwoCleanRuns
    /\ HoldsNoFileKey(m_log[1].table_before)
    /\ ~NoRepeatedKey
    /\ m_log[1].imported = 2
    /\ m_log[1].duplicate = 1
    /\ rows_duplicate = 3
    /\ Len(table) = 2

\* C7 as claimed: after two runs over the same file with deduplication, the
\* duplicate count of the second run equals the imported count of the
\* first, for every file and every initial store.
C7_DuplicatesEqualImported ==
    TwoCleanRuns => rows_duplicate = m_log[1].imported

\* C7 as amended: the duplicate count of the second run equals the imported
\* count of the first when the file repeats no identity key and the store
\* held none of the file's keys before the first run; for every file it is
\* at least the first run's imported count plus its duplicate count.
C7_DuplicatesOfSecondRun ==
    TwoCleanRuns =>
      /\ rows_duplicate >= m_log[1].imported + m_log[1].duplicate
      /\ (NoRepeatedKey /\ HoldsNoFileKey(m_log[1].table_before))
            => rows_duplicate = m_log[1].imported

C7_Witness ==
    /\ TwoCleanRuns
    /\ NoRepeatedKey
    /\ HoldsNoFileKey(m_log[1].table_before)
    /\ m_log[1].imported = 2
    /\ m_log[1].skipped = 1
    /\ rows_duplicate = 2
    /\ rows_skipped = 1

\* rows i < j of the file carry the same key and different PM2.5
SameKeyOtherValue(i, j) ==
    /\ i < j
    /\ HasKey(reader[i]) /\ HasKey(reader[j])
    /\ FileKey(reader[i]) = FileKey(reader[j])
    /\ reader[i]["PM25"] # reader[j]["PM25"]

\* the rows this run added to the store (committed or still pending)
AddedRows ==
    IF m_result = "True"
    THEN SubSeq(table, Len(m_before.table) + 1, Len(table))
    ELSE pending

\* C8: with deduplication, of two rows of the file with the same timestamp
\* and city but different PM2.5 the first, once inserted, is the only one
\* stored: the second is never inserted, it is counted as a duplicate
\* (unless its probe itself fails), and the stored row carries the first
\* row's values.
C8_SameKeyIsDuplicate ==
    (skip_duplicates /\ m_pc \in { "rows", "done", "exited" }) =>
      \A j \in DOMAIN row_log : \A i \in 1..(j - 1) :
        (SameKeyOtherValue(i, j) /\ row_log[i] = "imported") =>
          /\ row_log[j] # "imported"
          /\ (RunFaults = {}) => row_log[j] = "duplicate"
          /\ (m_result \in { "none", "True" }) =>
               /\ Cardinality(RowsWithKey(AddedRows, FileKey(reader[i]))) = 1
               /\ \A n \in RowsWithKey(AddedRows, FileKey(reader[i])) :
                     AddedRows[n] = insert_values(reader[i])

C8_Witness ==
    /\ skip_duplicates
    /\ m_run = 1
    /\ RunOver
    /\ m_result = "True"
    /\ Len(row_log) = 2
    /\ SameKeyOtherValue(1, 2)
    /\ row_log = << "imported", "duplicate" >>
    /\ table = << insert_values(reader[1]) >>
    /\ table[1].pm25 = Some(10)

\* the rows the run has inserted so far, in file order
Inserted(n) ==
    LET F[i \in 0..n] ==
          IF i = 0 THEN << >>
          ELSE IF row_log[i] = "imported"
               THEN Append(F[i - 1], insert_values(reader[i]))
               ELSE F[i - 1]
    IN  F[n]

\* C9: a parse error or a store error on one row does not abort the batch:
\* as long as nothing but such row errors happens, every row of the file is
\* processed, the rows inserted before a failing row stay in the
\* transaction, and the batch is committed with all of them.
C9_RowErrorsAreIsolated ==
    (m_pc \in { "rows", "done", "exited" } /\ ~IsNone(csv_file)
        /\ RunFaults \subseteq { "store_error" }) =>
      /\ (m_pc = "rows") => pending = Inserted(Len(row_log))
      /\ MigrateOver =>
            /\ m_result = "True"
            /\ Len(row_log) = Len(reader)
            /\ table = m_before.table \o Inserted(Len(reader))

C9_Witness ==
    /\ RunOver
    /\ m_result = "True"
    /\ RunFaults = { "store_error" }
    /\ row_log = << "imported", "skipped", "imported" >>
    /\ Parseable(reader[2])
    /\ Len(table) = Len(m_before.table) + 2

\* C10: when the connection to the store fails during the batch, nothing
\* of the batch is stored: the run does not report success and the store is
\* as it was before the run.
C10_ConnectionFailureRollsBack ==
    (RunOver /\ RunFaults \cap { "connect_error", "conn_lost" } # {}) =>
      /\ m_result \in { "False", "raised" }
      /\ table = m_before.table

C10_Witness ==
    /\ RunOver
    /\ "conn_lost" \in RunFaults
    /\ Len(row_log) = 3
    /\ row_log[1] = "imported"
    /\ row_log[3] = "skipped"
    /\ Parseable(reader[3])
    /\ m_result = "False"
    /\ table = m_before.table

(***************************************************************************)
(* The exit status of the migration utility.                               *)
(***************************************************************************)
\* C11: when the utility was run as `migrate` and its migration did not
\* fully succeed (file missing, store unreachable, batch aborted), the
\* process has exited with a non-zero status
C11_MigrationExitStatus ==
    (m_pc = "exited" /\ skip_duplicates /\ m_result # "True") => m_exit # 0

(***************************************************************************)
(* Rows of the file that do not parse.                                     *)
(***************************************************************************)
\* C12: every row migrate_csv has processed that fails to parse (bad
\* timestamp, bad number, missing required field) was counted as skipped,
\* not as imported or duplicate, whether or not its key is in the store
C12_ParseFailuresAreSkipped ==
    \A i \in DOMAIN row_log :
        ~Parseable(reader[i]) => row_log[i] = "skipped"

(***************************************************************************)
(* The relational sink of the collector.                                   *)
(***************************************************************************)
\* save_to_database was called in this cycle and has returned or raised
DeliveryOver ==
    /\ calls["save_to_database"] = 1
    /\ pc \notin { "db_execute", "db_rollback", "db_close" }

\* C13: a delivery of the relational sink that met a database-level failure
\* has reported it as the return value False, no exception has left the
\* sink, and the store holds no row of that delivery
C13_SinkFailureIsReturned ==
    (DeliveryOver /\ rets["save_to_database"] # "True") =>
        /\ rets["save_to_database"] = "False"
        /\ table = before.table

\* C14: the connection of the relational sink lives inside one delivery:
\* outside save_to_database (before it, after it on every path, while the
\* loop sleeps, when the next cycle begins) no collector connection is open
C14_ConnectionScopedToDelivery ==
    (pc \notin { "db_execute", "db_rollback", "db_close" }) =>
        db_conn \in { "none", "closed" }

\* the first delivery opened a connection and failed, and the second cycle
\* has begun with that connection closed
C14_Witness ==
    /\ cycle = 2
    /\ pc = "fetch"
    /\ table = << >>
    /\ db_conn = "closed"

(***************************************************************************)
(* The normalizer: which section of the payload the Measurement is built   *)
(* from.                                                                   *)
(***************************************************************************)
\* parse_measurement has run on a non-empty payload
Parsed == FetchReturnedData /\ pc \notin { "fetch", "parse" }
HasCurrentValues(d) ==
    /\ "current" \in DOMAIN d
    /\ "values" \in DOMAIN d["current"]
    /\ d["current"]["values"] # << >>
HasHistory(d) == "history" \in DOMAIN d /\ d["history"] # << >>
\* the Measurement whose values and index are those of `source`
TakenFrom(source) == Some(build_measurement(source, Now(cycle)))

\* C15 as stated: values and index come from "current" when it has a
\* non-empty values list, even if "history" is present; else from the first
\* element of "history" when that list is non-empty; else "no data"
C15_SourceSelection ==
    Parsed =>
        measurement =
            IF HasCurrentValues(data) THEN TakenFrom(data["current"])
            ELSE IF HasHistory(data) THEN TakenFrom(data["history"][1])
            ELSE None

\* C15, amended: as stated, except that a first element of "history" that
\* is an empty object gives "no data" like a missing one
C15_SourceSelectionAmended ==
    Parsed =>
        measurement =
            IF HasCurrentValues(data) THEN TakenFrom(data["current"])
            ELSE IF HasHistory(data) /\ data["history"][1] # EmptyDict
            THEN TakenFrom(data["history"][1])
            ELSE None

\* both sections carry data, they differ, and "current" was taken
C15_Witness ==
    /\ Parsed
    /\ HasCurrentValues(data)
    /\ HasHistory(data)
    /\ measurement = TakenFrom(data["current"])
    /\ measurement # TakenFrom(data["history"][1])

(***************************************************************************)
(* The row the file sink writes.                                           *)
(***************************************************************************)
OptionalFields == << "pm25", "pm10", "temperature", "humidity", "pressure", "aqi" >>
\* the file sink has written the Measurement of this cycle
RowWritten == rets["save_to_csv"] = "True"
\* the last line of the file
LastLine == csv_file[1][Len(csv_file[1])]
AllAbsent(m) == \A k \in DOMAIN OptionalFields : IsNone(m[OptionalFields[k]])

\* C16: in the row written for a Measurement, the field of each optional
\* value is empty exactly when the value is absent, a zero is written as the
\* number 0, and a Measurement without optional values gives 6 populated
\* fields followed by 6 empty ones
C16_AbsentIsEmpty ==
    RowWritten =>
        LET m == measurement[1]
            row == LastLine
        IN  /\ Len(row) = 12
            /\ \A k \in DOMAIN OptionalFields :
                 /\ (row[6 + k] = Empty) <=> IsNone(m[OptionalFields[k]])
                 /\ (m[OptionalFields[k]] = Some(0)) => row[6 + k] = Num(0)
            /\ AllAbsent(m) =>
                 /\ \A j \in 1..6 : row[j] # Empty
                 /\ \A j \in 7..12 : row[j] = Empty

\* a row was written for a Measurement with a zero and an absent value
C16_Witness ==
    /\ RowWritten
    /\ measurement[1].temperature = Some(0)
    /\ IsNone(measurement[1].pm25)
    /\ LastLine[9] = Num(0)
    /\ LastLine[7] = Empty

(***************************************************************************)
(* The payload of the forwarding sink.                                     *)
(***************************************************************************)
\* the forwarding sink has POSTed the Measurement of this cycle
Forwarded == rets["send_to_hsbi"] = "True"
LastPost == hsbi_posts[Len(hsbi_posts)]
\* the value of an optional field, 0 when it is absent
ValueOrZero(o) == IF IsNone(o) THEN 0 ELSE o[1]
Placeholders ==
    { "number_pm0_5", "number_pm1_0", "number_pm2_5", "number_pm4", "number_pm10" }

\* C17: the payload that was POSTed carries 0 for every absent numeric field
\* of the Measurement and the value itself for every present one, also in
\* the fields derived from PM2.5 and PM10, and 0 in the five
\* number-concentration fields
C17_AbsentIsZero ==
    Forwarded =>
        LET m == measurement[1]
            p == LastPost
        IN  /\ p.temp = ValueOrZero(m.temperature)
            /\ p.hum = ValueOrZero(m.humidity)
            /\ p.pres = ValueOrZero(m.pressure)
            /\ p.mass_pm2_5 = ValueOrZero(m.pm25)
            /\ p.mass_pm10 = ValueOrZero(m.pm10)
            /\ p.mass_pm1_0_tenths = 7 * ValueOrZero(m.pm25)
            /\ p.mass_pm4 = ValueOrZero(m.pm10)
            /\ \A f \in Placeholders : p[f] = 0

\* a Measurement with an absent and a present value was forwarded
C17_Witness ==
    /\ Forwarded
    /\ IsNone(measurement[1].temperature)
    /\ measurement[1].pm25 = Some(12)
    /\ LastPost.temp = 0
    /\ LastPost.mass_pm2_5 = 12

(***************************************************************************)
(* Round trip: file sink, then migration of the sink's file.               *)
(***************************************************************************)
\* the persisted fields of a Measurement; the timestamp to the second, as
\* the file and the DATETIME column hold it
PersistedFields(m) ==
    [datetime_utc |-> m.timestamp.s, city |-> m.city,
     lat |-> Some(m.latitude), lon |-> Some(m.longitude),
     hour_utc |-> Some((m.timestamp.s \div 3600) % 24),
     minute_utc |-> Some((m.timestamp.s \div 60) % 60),
     pm25 |-> m.pm25, pm10 |-> m.pm10, temperature |-> m.temperature,
     humidity |-> m.humidity, pressure |-> m.pressure, aqi |-> m.aqi,
     station_id |-> m.station_id]
\* the migration of the file the sink wrote has returned True
RoundTripOver == RowWritten /\ MigrateOver /\ m_result = "True"
\* the store held the Measurement's key before the migration started
KeyStored ==
    \E i \in DOMAIN m_before.table :
        StoredKey(m_before.table[i]) =
            << measurement[1].timestamp.s, measurement[1].city >>

CommitStep ==
    /\ m_pc = "rows"
    /\ m_idx > Len(reader)
    /\ m_pc' = "done"
    /\ m_result' = "True"
    /\ table' = table \o pending

\* C19: the store changes only in the one commit that follows the last row
\* of the file; until then no row of the run is durable, and a run that
\* failed before or in the commit has left the store as it was before the
\* run
C19_SingleCommit ==
    /\ []((m_pc \in { "start", "rows" }) => table = m_before.table)
    /\ []((MigrateOver /\ m_result # "True") => table = m_before.table)
    /\ [][(table' # table) => CommitStep]_vars

\* a run inserted rows and then failed: the store is as before the run
C19_Witness ==
    /\ MigrateOver
    /\ m_result = "False"
    /\ rows_imported > 0
    /\ table = m_before.table

(***************************************************************************)
(* The header of the file sink's file.                                     *)
(***************************************************************************)
\* the lines of the file, none when the file does not exist
Lines == IF IsNone(csv_file) THEN << >> ELSE csv_file[1]
\* this step is a delivery of the file sink
Delivery == calls'["save_to_csv"] = calls["save_to_csv"] + 1

\* C20: a delivery that succeeds writes the header exactly when the file
\* did not exist and then appends the Measurement's row, a delivery that
\* fails appends nothing; so a non-empty file begins with the header, holds
\* the header once, and after it one row per successful delivery, in order
C20_HeaderOnce ==
    /\ [][(Delivery /\ rets'["save_to_csv"] = "True") =>
            csv_file' = Some((IF IsNone(csv_file) THEN << header_line >>
                                                  ELSE csv_file[1])
                             \o << to_csv_row(measurement[1]) >>)]_vars
    /\ [][(Delivery /\ rets'["save_to_csv"] # "True") =>
            (IF IsNone(csv_file') THEN << >> ELSE csv_file'[1]) = Lines]_vars
    /\ [](Lines # << >> =>
            /\ Lines[1] = header_line
            /\ Cardinality({ i \in DOMAIN Lines : Lines[i] = header_line }) = 1)

(***************************************************************************)
(* The order of the steps of a cycle, and of the cycles.                   *)
(***************************************************************************)
\* the function was called in this cycle / has returned in this cycle
WasCalled(f) == calls[f] = 1
HasReturned(f) == rets[f] \in { "True", "False", "None", "data" }
\* the sink is disabled or its delivery has returned
SinkDone(f) == SinkEnabled(f) => HasReturned(f)

\* C21: in a cycle the fetch has returned before the normalizer produces a
\* Measurement, the Measurement exists before any sink is called, the
\* relational sink is done before the file sink is called and both are done
\* before the forwarding sink is called; a new cycle begins only from the
\* sleep that follows a cycle that is over
C21_StrictlySequential ==
    /\ [](ReachedFanOut => HasReturned("fetch_from_airly"))
    /\ [](\A f \in Sinks : WasCalled(f) => ReachedFanOut)
    /\ [](WasCalled("save_to_csv") => SinkDone("save_to_database"))
    /\ [](WasCalled("send_to_hsbi") =>
            SinkDone("save_to_database") /\ SinkDone("save_to_csv"))
    /\ [][(cycle' # cycle) =>
            /\ cycle' = cycle + 1
            /\ pc = "sleep"
            /\ cycle_result # "none"
            /\ pc' = "fetch"
            /\ calls' = NoCalls]_vars

\* the second cycle has called the three sinks, one after the other
C21_Witness ==
    /\ cycle = 2
    /\ pc = "return"
    /\ \A f \in Sinks : WasCalled(f) /\ HasReturned(f)

(***************************************************************************)
(* No retry inside a cycle.                                                *)
(***************************************************************************)
\* what the cycle has added to a sequence of the world so far
AddedTo(now, old) == SubSeq(now, Len(old) + 1, Len(now))

\* C22: a cycle makes at most one GET and at most one POST and calls every
\* function at most once; the record it delivers is the one it fetched and
\* stamped itself, so a failed fetch or delivery is tried again only by the
\* next cycle, with that cycle's record
C22_NoRetryInsideCycle ==
    /\ \A f \in Counted : calls[f] <= 1
    /\ ReachedFanOut =>
         /\ calls["GET"] = 1
         /\ measurement = parse_measurement(data, Now(cycle))
    /\ Len(AddedTo(hsbi_posts, before.hsbi_posts)) <= 1
    /\ \A i \in DOMAIN AddedTo(hsbi_posts, before.hsbi_posts) :
         AddedTo(hsbi_posts, before.hsbi_posts)[i].ts = strftime(Now(cycle))
    /\ Len(AddedTo(table, before.table)) <= 1
    /\ \A i \in DOMAIN AddedTo(table, before.table) :
         AddedTo(table, before.table)[i].datetime_utc = Now(cycle).s

\* the first cycle forwarded nothing, the second cycle has forwarded its
\* own record with one POST
C22_Witness ==
    /\ cycle = 2
    /\ before.hsbi_posts = << >>
    /\ config.enable_hsbi
    /\ calls["POST"] = 1
    /\ Len(hsbi_posts) = 1
    /\ hsbi_posts[1].ts = strftime(Now(2))

(***************************************************************************)
(* The provider API key is not configured.                                 *)
(***************************************************************************)
\* C26: without an API key the fetch returns None without any GET, the
\* cycle is reported failed and no sink is called; the continuous loop does
\* not exit, and each such cycle is followed by the next one, which fails
\* in the same way
C26_NoApiKey ==
    /\ []((~config.airly_api_key /\ WasCalled("fetch_from_airly")) =>
            /\ calls["GET"] = 0
            /\ rets["fetch_from_airly"] = "None"
            /\ \A f \in Sinks : ~WasCalled(f)
            /\ CycleOver => cycle_result = "False"
            /\ ~once => pc # "exit")
    /\ \A n \in 1..(MaxCycles - 1) :
         (~config.airly_api_key /\ ~once /\ cycle = n)
            ~> (cycle = n + 1 /\ pc = "sleep" /\ cycle_result = "False")

\* the continuous loop without a key sleeps after its second failed cycle
C26_Witness ==
    /\ ~config.airly_api_key
    /\ ~once
    /\ cycle = 2
    /\ pc = "sleep"
    /\ cycle_result = "False"
    /\ calls["GET"] = 0

(***************************************************************************)
(* Deduplication switched on and off.                                      *)
(***************************************************************************)
\* when row i is processed the transaction sees a row with its key: one
\* the store held before the run, or one the run inserted earlier
KeyKnown(i) ==
    \/ RowsWithKey(m_before.table, FileKey(reader[i])) # {}
    \/ \E j \in 1..(i - 1) :
          /\ row_log[j] = "imported"
          /\ FileKey(reader[j]) = FileKey(reader[i])
Count(outcome) == Cardinality({ i \in DOMAIN row_log : row_log[i] = outcome })

\* C23: in a run without store faults, with deduplication a row whose key
\* the probe finds is counted as duplicate and not inserted, and only such a
\* row is; without deduplication the duplicate counter stays 0 and every
\* parseable row is inserted, also when the store holds its key
C23_DeduplicationSwitch ==
    (m_pc \in { "rows", "done", "exited" } /\ ~IsNone(csv_file)
        /\ RunFaults = {}) =>
      /\ rows_duplicate = Count("duplicate")
      /\ Len(AddedRows) = Count("imported")
      /\ skip_duplicates =>
           \A i \in DOMAIN row_log :
              HasKey(reader[i]) => (row_log[i] = "duplicate" <=> KeyKnown(i))
      /\ ~skip_duplicates =>
           /\ rows_duplicate = 0
           /\ \A i \in DOMAIN row_log :
                Parseable(reader[i]) => row_log[i] = "imported"

\* without deduplication a row whose key the store already held was
\* inserted and committed
C23_Witness ==
    /\ ~skip_duplicates
    /\ RunOver
    /\ m_result = "True"
    /\ RunFaults = {}
    /\ Len(row_log) >= 1
    /\ HasKey(reader[1])
    /\ RowsWithKey(m_before.table, FileKey(reader[1])) # {}
    /\ row_log[1] = "imported"
    /\ rows_duplicate = 0
    /\ Len(table) = Len(m_before.table) + rows_imported

(***************************************************************************)
(* The three counters of a migration run.                                  *)
(***************************************************************************)
\* the loop over the file is over and connection.commit() was called
ReachedCommit == MigrateOver /\ m_idx > Len(reader)
\* the number of rows the run has added to the store
AddedToStore == Len(table) - Len(m_before.table)

\* C24 as stated: at the end of a run that reached its commit the three
\* counters add up to the number of data rows read, and the run has added
\* as many rows to the store as it counted imported
C24_CountersAccountForRows ==
    ReachedCommit =>
        /\ rows_imported + rows_duplicate + rows_skipped = Len(reader)
        /\ AddedToStore = rows_imported

\* C24, amended: the counters add up at the end of every run that reached
\* its commit; the run has added as many rows as it counted imported when
\* the commit succeeded, and none when the commit failed
C24_CountersAccountForRowsAmended ==
    ReachedCommit =>
        /\ rows_imported + rows_duplicate + rows_skipped = Len(reader)
        /\ Len(row_log) = Len(reader)
        /\ Count("imported") = rows_imported
        /\ Count("duplicate") = rows_duplicate
        /\ Count("skipped") = rows_skipped
        /\ AddedToStore = IF m_result = "True" THEN rows_imported ELSE 0

\* a committed run with a row in each counter
C24_Witness ==
    /\ ReachedCommit
    /\ m_result = "True"
    /\ row_log = << "imported", "duplicate", "skipped" >>
    /\ AddedToStore = 1

(***************************************************************************)
(* Two concurrent migration runs.                                          *)
(***************************************************************************)
BothCommitted ==
    /\ m_pc = "done" /\ m_result = "True"
    /\ peer.pc = "done" /\ peer.result = "True"

\* C25: after two concurrent runs with deduplication over the same file
\* have both committed, the store holds at most one row per (timestamp,
\* city)
C25_ConcurrentRunsKeepKeysUnique ==
    BothCommitted =>
        \A i, j \in DOMAIN table :
            StoredKey(table[i]) = StoredKey(table[j]) => i = j

(***************************************************************************)
(* The API key of the REST layer.                                          *)
(***************************************************************************)
Responded == api.pc = "responded"
\* the request carries the configured, non-empty server key
KeyMatches == api.API_KEY # "" /\ api.x_api_key = Some(api.API_KEY)
\* the request was answered before the store connection could be opened
NoConnection == api.conn = "none"
StoreUntouched == ~api.touched /\ table = api.before

\* C27 as stated: a /measurements request reads or modifies the store only
\* with the configured non-empty key; without a server key it is answered
\* 500, with a key that does not match 401, the store unchanged in both
\* cases; /health is served without a key
C27_KeyGuardsMeasurements ==
    Responded =>
        /\ api.op = "health" => api.status = 200
        /\ api.op \in MeasurementOps =>
             /\ api.touched => KeyMatches
             /\ api.API_KEY = "" => (api.status = 500 /\ StoreUntouched)
             /\ (api.API_KEY # "" /\ ~IsNone(api.x_api_key) /\ ~KeyMatches)
                    => (api.status = 401 /\ StoreUntouched)

\* C27, amended: the store is read or modified only with the configured
\* non-empty key.  A /measurements request without it leaves the store
\* untouched and is answered 500 when the store connection cannot be
\* opened, else 422 when it has no X-API-Key header, else 500 when no
\* server key is configured, else 401; /health is served 200 without a key
C27_KeyGuardsMeasurementsAmended ==
    Responded =>
        /\ api.op = "health" => (api.status = 200 /\ StoreUntouched)
        /\ api.op \in MeasurementOps =>
             /\ api.touched => (KeyMatches /\ api.valid /\ ~NoConnection)
             /\ ~KeyMatches =>
                  /\ StoreUntouched
                  /\ api.status = IF NoConnection THEN 500
                                  ELSE IF IsNone(api.x_api_key) THEN 422
                                  ELSE IF api.API_KEY = "" THEN 500
                                  ELSE 401

\* a request to delete with the wrong key was answered 401 and the row is
\* still there, after a request with the right key added a row
C27_Witness ==
    /\ Responded
    /\ api.served = 2
    /\ api.op = "delete"
    /\ api.API_KEY = "secret"
    /\ api.x_api_key = Some("wrong")
    /\ api.status = 401
    /\ Len(table) = 2
    /\ api.measurement_id = 2

====
